---- MODULE Spec2Model ----
(***************************************************************************)
(* pyStoNED: the formulation engine of pystoned/utils/CQERZG2.py (classes  *)
(* CQRZG2, CERZG2) and of pystoned/pCQER.py (classes pCQR, pCER).          *)
(*                                                                         *)
(* A Formulation is the Python object `self` with its pyomo ConcreteModel  *)
(* `self.__model__`.  The pyomo model is kept symbolically: its index sets,*)
(* its variables (name, index set, bounds), its objectives (name, active   *)
(* flag, rule) and its constraints (family, key, relation, both sides as   *)
(* sets of terms <<variable, index, coefficient>>).                        *)
(*                                                                         *)
(* Three specifications:                                                   *)
(*   SpecBuild    one constructor call, over enumerated arguments;         *)
(*   Spec         the life of a constructed CQRZG2/CERZG2 object under     *)
(*                optimize(), get_alpha() and get_beta(), one call at a    *)
(*                time;                                                    *)
(*   SpecThreads  the same calls made by several callers at once, their    *)
(*                steps interleaved.                                       *)
(***************************************************************************)
EXTENDS Integers, Sequences, FiniteSets, TLC

VARIABLES
    self,      \* the object: its attributes and its pyomo model
    op,        \* the last call made on it, with its arguments
    ret,       \* what that call returned
    raised,    \* the exception that call raised ("none" when it returned)
    stdout,    \* the line that call printed ("" when none)
    solves,    \* how many times a solver's solve() has been invoked so far
    callers    \* where each concurrent caller of the object stands

vars == <<self, op, ret, raised, stdout, solves, callers>>

----------------------------------------------------------------------------
(* Bounds of the enumeration.                                              *)

MaxN == 2        \* observations: N in 1..MaxN
MaxJ == 2        \* inputs per observation: J in 1..MaxJ
MaxK == 1        \* contextual variables per observation: K in 0..MaxK
MaxSolves == 3   \* solver invocations followed in one life
MaxPenalty == 4  \* penalty codes tried: 0..MaxPenalty
MaxCallers == 2  \* concurrent callers of one object

----------------------------------------------------------------------------
(* Configuration constants imported from ..constant.                       *)

CET_ADDI == "addi"
CET_MULT == "mult"
FUN_PROD == "prod"
FUN_COST == "cost"
RTS_VRS == "vrs"
RTS_CRS == "crs"

----------------------------------------------------------------------------
(* Python values that the constructor inspects by type: a value is         *)
(* <<type, payload>>.                                                      *)

Num(n) == <<"float", n>>
PyList(s) == <<"list", s>>
NdArray(s) == <<"ndarray", s>>

type(v) == v[1]
len(v) == Len(v[2])
\* v[i] with Python's 0-based index
Item(v, i) == v[2][i + 1]

\* ndarray.tolist(): nested Python lists of Python scalars
tolist(a) ==
    PyList([r \in DOMAIN a[2] |->
              IF type(a[2][r]) = "ndarray"
              THEN PyList([c \in DOMAIN a[2][r][2] |-> a[2][r][2][c]])
              ELSE a[2][r]])

----------------------------------------------------------------------------
(* The data of the enumerated calls.                                       *)

YVal(i) == i + 1
XVal(i, j) == 10 * (i + 1) + j + 1
ZVal(i, k) == 100 * (i + 1) + k + 1

DataKinds == {"array1d", "lists", "array2d"}

\* An N-observation sample with `width` values per observation, as the caller
\* may hand it over: a 1-d numpy array of scalars (width 1), a Python list of
\* lists, or a 2-d numpy array.
XData(kind, N, width) ==
    CASE kind = "array1d"  -> NdArray([i \in 1..N |-> Num(XVal(i - 1, 0))])
      [] kind = "lists"    ->
            PyList([i \in 1..N |->
                      PyList([j \in 1..width |-> Num(XVal(i - 1, j - 1))])])
      [] kind = "array2d"  ->
            NdArray([i \in 1..N |->
                       NdArray([j \in 1..width |-> Num(XVal(i - 1, j - 1))])])

ZData(kind, N, width) ==
    CASE kind = "array1d"  -> NdArray([i \in 1..N |-> Num(ZVal(i - 1, 0))])
      [] kind = "lists"    ->
            PyList([i \in 1..N |->
                      PyList([k \in 1..width |-> Num(ZVal(i - 1, k - 1))])])
      [] kind = "array2d"  ->
            NdArray([i \in 1..N |->
                       NdArray([k \in 1..width |-> Num(ZVal(i - 1, k - 1))])])

YData(N) == [i \in 1..N |-> YVal(i - 1)]

\* The shapes a sample of up to maxWidth (at least minWidth) values per
\* observation can be given in; the flat kind carries one value each, a row
\* of a 2-d array at least one.
Shapes(minWidth, maxWidth) ==
    {sh \in [kind : DataKinds, width : minWidth..maxWidth] :
        /\ (sh.kind = "array1d") => sh.width = 1
        /\ (sh.kind = "array2d") => sh.width >= 1}

Matrices(N) == [(0..(N - 1)) \X (0..(N - 1)) -> BOOLEAN]
AllFalse(N) == [p \in (0..(N - 1)) \X (0..(N - 1)) |-> FALSE]
AllTrue(N) == [p \in (0..(N - 1)) \X (0..(N - 1)) |-> TRUE]

----------------------------------------------------------------------------
(* The object.  `attrs` names the attributes assigned so far; an attribute *)
(* not yet assigned holds a placeholder of its type.                       *)

Unset == <<"unset", <<>>>>

NoModel ==
    [I |-> {}, J |-> {}, K |-> {},
     vars |-> {}, objs |-> {}, families |-> {}, cons |-> {}]

NoObject ==
    [cls |-> "", attrs |-> {},
     x |-> Unset, y |-> <<>>, z |-> Unset, tau |-> "", eta |-> "",
     cet |-> "", fun |-> "", rts |-> "",
     Cutactive |-> <<>>, Active |-> <<>>,
     model |-> NoModel,
     optimization_status |-> 0, problem_status |-> <<"int", 0>>]

\* A running call: the object as it is, and the exception under way.  A call
\* is followed as the set of the ways it may run (one, where nothing is left
\* to the library or the solver).
Ok(s) == [self |-> s, raised |-> "none"]
Raise(s, e) == [self |-> s, raised |-> e]

----------------------------------------------------------------------------
(* pyomo, as far as the formulation uses it.                               *)

\* Var(index, bounds=...)
Var(m, name, index, bounds) ==
    [m EXCEPT !.vars = @ \cup {[name |-> name, index |-> index, bounds |-> bounds]}]

\* Objective(rule=..., sense=minimize): a new objective is active
Objective(m, name, expr) ==
    [m EXCEPT !.objs = @ \cup {[name |-> name, active |-> TRUE, expr |-> expr]}]

\* objective.deactivate()
deactivate(m, name) ==
    [m EXCEPT !.objs = {IF o.name = name THEN [o EXCEPT !.active = FALSE] ELSE o :
                          o \in @}]

\* Constraint.Skip, a relational expression lhs rel rhs, and a rule call that
\* raises TypeError (a variable multiplied by something that is no number)
Skip == [skip |-> TRUE, err |-> FALSE, rel |-> "", lhs |-> {}, rhs |-> {}]
Rel(rel, lhs, rhs) ==
    [skip |-> FALSE, err |-> FALSE, rel |-> rel, lhs |-> lhs, rhs |-> rhs]
TypeErr == [skip |-> FALSE, err |-> TRUE, rel |-> "", lhs |-> {}, rhs |-> {}]

\* The members of a one-dimensional index set, as the keys (i,) of a component
Keys(I) == {<<i>> : i \in I}

\* What a rule builder hands to Constraint(): a rule function (callable), given
\* as its result at every key, or the constant False.  Rule takes the results
\* of a rule(model, i), Rule2 those of a rule(model, i, h).
Rule(body) == [callable |-> TRUE, body |-> [k \in Keys(DOMAIN body) |-> body[k[1]]]]
Rule2(body) == [callable |-> TRUE, body |-> body]
False == [callable |-> FALSE, body |-> <<>>]

\* Constraint(index, rule=...) on a running call: the rule is called at every
\* key and every result but Constraint.Skip becomes a constraint of the family.
\* A rule that is not callable is rejected by pyomo with an error of its own.
AddFamily(c, name, index, r) ==
    IF c.raised # "none" THEN c
    ELSE IF ~r.callable THEN Raise(c.self, "PyomoError")
    ELSE IF \E k \in index : r.body[k].err THEN Raise(c.self, "TypeError")
    ELSE Ok([c.self EXCEPT
               !.model.families = @ \cup {name},
               !.model.cons = @ \cup
                   {[family |-> name, key |-> k, rel |-> r.body[k].rel,
                     lhs |-> r.body[k].lhs, rhs |-> r.body[k].rhs] :
                      k \in {k \in index : ~r.body[k].skip}}])

\* The same on the set C of ways the call may have run so far.
Constraint(C, name, index, rule) ==
    {AddFamily(c, name, index, r) : c \in C, r \in {rule}}

\* a successor that runs off the end of the set
nextw_NoWrap(I, i) == i + 1

\* Set.nextw(i): the next member of an ordered set, wrapping around
nextw(I, i) == (i + 1) % Cardinality(I)

----------------------------------------------------------------------------
(* Expressions: a side of a relation is the set of its terms               *)
(* <<variable, index, coefficient>>.                                       *)

X(s, i, j) == Item(Item(s.x, i), j)
Z(s, i, k) == Item(Item(s.z, i), k)
IsNumber(v) == type(v) = "float"
XRowIsNumeric(s, i) == \A j \in s.model.J : IsNumber(X(s, i, j))
ZRowIsNumeric(s, i) == \A k \in s.model.K : IsNumber(Z(s, i, k))

\* sum(model.beta[h, j] * self.x[i][j] for j in model.J)
BetaX(s, h, i) == {<<"beta", <<h, j>>, X(s, i, j)[2]>> : j \in s.model.J}
\* sum(model.lamda[k] * self.z[i][k] for k in model.K)
LamdaZ(s, i) == {<<"lamda", <<k>>, Z(s, i, k)[2]>> : k \in s.model.K}
\* model.alpha[h]
Alpha(h) == {<<"alpha", <<h>>, 1>>}

----------------------------------------------------------------------------
(* CQRZG2: the rule builders.                                              *)

\* tau * sum(epsilon_plus[i]) + (1 - tau) * sum(epsilon_minus[i]);
\* an objective term is <<variable, index, weight, power>>
objective_rule(s) ==
    {<<"epsilon_plus", <<i>>, "tau", 1>> : i \in s.model.I}
      \cup {<<"epsilon_minus", <<i>>, "1-tau", 1>> : i \in s.model.I}

error_decomposition(s) ==
    Rule([i \in s.model.I |->
            Rel("==", {<<"epsilon", <<i>>, 1>>},
                {<<"epsilon_plus", <<i>>, 1>>, <<"epsilon_minus", <<i>>, -1>>})])

regression_rule(s) ==
    IF s.cet = CET_ADDI THEN
        IF s.rts = RTS_VRS THEN
            Rule([i \in s.model.I |->
                    IF XRowIsNumeric(s, i) /\ ZRowIsNumeric(s, i)
                    THEN Rel("==", {<<"const", <<>>, s.y[i + 1]>>},
                             Alpha(i) \cup BetaX(s, i, i) \cup LamdaZ(s, i)
                               \cup {<<"epsilon", <<i>>, 1>>})
                    ELSE TypeErr])
        ELSE False
    ELSE IF s.cet = CET_MULT THEN
        Rule([i \in s.model.I |->
                IF ZRowIsNumeric(s, i)
                THEN Rel("==", {<<"log(const)", <<>>, s.y[i + 1]>>},
                         {<<"log(frontier+1)", <<i>>, 1>>} \cup LamdaZ(s, i)
                           \cup {<<"epsilon", <<i>>, 1>>})
                ELSE TypeErr])
    ELSE False

\* the log-link carrying the intercept whatever self.rts
log_rule_WithIntercept(s) ==
    IF s.cet = CET_MULT THEN
        Rule([i \in s.model.I |->
                IF XRowIsNumeric(s, i)
                THEN Rel("==", {<<"frontier", <<i>>, 1>>},
                         Alpha(i) \cup BetaX(s, i, i) \cup {<<"const", <<>>, -1>>})
                ELSE TypeErr])
    ELSE False

log_rule(s) ==
    IF s.cet = CET_MULT THEN
        IF s.rts = RTS_VRS THEN
            Rule([i \in s.model.I |->
                    IF XRowIsNumeric(s, i)
                    THEN Rel("==", {<<"frontier", <<i>>, 1>>},
                             Alpha(i) \cup BetaX(s, i, i) \cup {<<"const", <<>>, -1>>})
                    ELSE TypeErr])
        ELSE IF s.rts = RTS_CRS THEN
            Rule([i \in s.model.I |->
                    IF XRowIsNumeric(s, i)
                    THEN Rel("==", {<<"frontier", <<i>>, 1>>},
                             BetaX(s, i, i) \cup {<<"const", <<>>, -1>>})
                    ELSE TypeErr])
        ELSE False
    ELSE False

\* the comparison of a production frontier, whatever self.fun
operator_AlwaysLe(s) == "<="

\* __operator: NumericValue.__le__ or NumericValue.__ge__
operator(s) == IF s.fun = FUN_PROD THEN "<=" ELSE ">="

afriat_rule(s) ==
    IF s.cet = CET_ADDI THEN
        IF s.rts = RTS_VRS THEN
            Rule([i \in s.model.I |->
                    IF XRowIsNumeric(s, i)
                    THEN Rel(operator(s),
                             Alpha(i) \cup BetaX(s, i, i),
                             Alpha(nextw(s.model.I, i))
                               \cup BetaX(s, nextw(s.model.I, i), i))
                    ELSE TypeErr])
        ELSE False
    ELSE IF s.cet = CET_MULT THEN
        IF s.rts = RTS_VRS THEN
            Rule([i \in s.model.I |->
                    IF XRowIsNumeric(s, i)
                    THEN Rel(operator(s),
                             Alpha(i) \cup BetaX(s, i, i),
                             Alpha(nextw(s.model.I, i))
                               \cup BetaX(s, nextw(s.model.I, i), i))
                    ELSE TypeErr])
        ELSE IF s.rts = RTS_CRS THEN
            Rule([i \in s.model.I |->
                    IF XRowIsNumeric(s, i)
                    THEN Rel(operator(s),
                             BetaX(s, i, i),
                             BetaX(s, nextw(s.model.I, i), i))
                    ELSE TypeErr])
        ELSE False
    ELSE False

\* The rule function shared by __sweet_rule (on self.Cutactive) and
\* __sweet_rule2 (on self.Active): sweet_rule(model, i, h)
sweet_body(s, matrix, withAlpha) ==
    [p \in s.model.I \X s.model.I |->
        IF matrix[p] THEN
            IF p[1] = p[2] THEN Skip
            ELSE IF XRowIsNumeric(s, p[1])
            THEN Rel(operator(s),
                     (IF withAlpha THEN Alpha(p[1]) ELSE {}) \cup BetaX(s, p[1], p[1]),
                     (IF withAlpha THEN Alpha(p[2]) ELSE {}) \cup BetaX(s, p[2], p[1]))
            ELSE TypeErr
        ELSE Skip]

sweet_rule(s) ==
    IF s.cet = CET_ADDI THEN
        IF s.rts = RTS_VRS THEN Rule2(sweet_body(s, s.Cutactive, TRUE))
        ELSE False
    ELSE IF s.cet = CET_MULT THEN
        IF s.rts = RTS_VRS THEN Rule2(sweet_body(s, s.Cutactive, TRUE))
        ELSE IF s.rts = RTS_CRS THEN Rule2(sweet_body(s, s.Cutactive, FALSE))
        ELSE False
    ELSE False

\* the second family built on self.Cutactive as well
sweet_rule2_OnCutactive(s) == sweet_rule(s)

sweet_rule2(s) ==
    IF s.cet = CET_ADDI THEN
        IF s.rts = RTS_VRS THEN Rule2(sweet_body(s, s.Active, TRUE))
        ELSE False
    ELSE IF s.cet = CET_MULT THEN
        IF s.rts = RTS_VRS THEN Rule2(sweet_body(s, s.Active, TRUE))
        ELSE IF s.rts = RTS_CRS THEN Rule2(sweet_body(s, s.Active, FALSE))
        ELSE False
    ELSE False

----------------------------------------------------------------------------
(* CQRZG2.__init__(y, x, z, tau, Cutactive, Active, cet, fun, rts).        *)

SetAttrs(s, names) == [s EXCEPT !.attrs = @ \cup names]

\* if type(v[0]) != list: wrap every element of v.tolist() in a list of its own.
\* Only numpy arrays (and the like) have tolist(); by then the attribute has
\* been reset to [].
Promote(v) ==
    IF type(Item(v, 0)) # "list" THEN
        IF type(v) # "ndarray"
        THEN [value |-> PyList(<<>>), raised |-> "AttributeError"]
        ELSE [value |-> PyList([r \in DOMAIN tolist(v)[2] |->
                                  PyList(<<tolist(v)[2][r]>>)]),
              raised |-> "none"]
    ELSE [value |-> v, raised |-> "none"]

\* lines 27-33
AssignArguments(s, a) ==
    SetAttrs([s EXCEPT !.x = a.x, !.y = a.y, !.z = a.z, !.tau = a.tau,
                  !.cet = a.cet, !.fun = a.fun, !.rts = a.rts],
        {"x", "y", "z", "tau", "cet", "fun", "rts"})

\* lines 35-38
NormalizeX(C, a) ==
    {IF c.raised # "none" THEN c
     ELSE [self |-> [c.self EXCEPT !.x = p.value], raised |-> p.raised] :
        c \in C, p \in {Promote(a.x)}}

\* lines 40-43
NormalizeZ(C, a) ==
    {IF c.raised # "none" THEN c
     ELSE [self |-> [c.self EXCEPT !.z = p.value], raised |-> p.raised] :
        c \in C, p \in {Promote(a.z)}}

\* lines 45-46
AssignMatrices(C, a) ==
    {IF c.raised # "none" THEN c
     ELSE Ok(SetAttrs([c.self EXCEPT !.Cutactive = a.Cutactive, !.Active = a.Active],
                      {"Cutactive", "Active"})) :
        c \in C}

\* lines 49-54: ConcreteModel() and the index sets I, J, K
InitializeSets(C) ==
    {IF c.raised # "none" THEN c
     ELSE Ok(SetAttrs([c.self EXCEPT
                         !.model.I = 0..(Len(c.self.y) - 1),
                         !.model.J = 0..(len(Item(c.self.x, 0)) - 1),
                         !.model.K = 0..(len(Item(c.self.z, 0)) - 1)],
                      {"__model__"})) :
        c \in C}

\* lines 57-70
Variables(m) ==
    Var(Var(Var(Var(Var(Var(Var(m,
        "alpha", Keys(m.I), <<"None", "None">>),
        "beta", m.I \X m.J, <<"0.0", "None">>),
        "lamda", Keys(m.K), <<"None", "None">>),
        "epsilon", Keys(m.I), <<"None", "None">>),
        "epsilon_plus", Keys(m.I), <<"0.0", "None">>),
        "epsilon_minus", Keys(m.I), <<"0.0", "None">>),
        "frontier", Keys(m.I), <<"0.0", "None">>)

InitializeVariables(C) ==
    {IF c.raised # "none" THEN c
     ELSE Ok([c.self EXCEPT !.model = Variables(@)]) :
        c \in C}

\* lines 73-75
InitializeObjective(C) ==
    {IF c.raised # "none" THEN c
     ELSE Ok([c.self EXCEPT
                !.model = Objective(@, "objective", objective_rule(c.self))]) :
        c \in C}

\* lines 76-96; the rule builders read attributes that no longer change
Families(c) ==
    Constraint(
      Constraint(
        Constraint(
          IF c.self.cet = CET_MULT
          THEN Constraint(
                 Constraint(
                   Constraint({c}, "error_decomposition", Keys(c.self.model.I),
                              error_decomposition(c.self)),
                   "regression_rule", Keys(c.self.model.I), regression_rule(c.self)),
                 "log_rule", Keys(c.self.model.I), log_rule(c.self))
          ELSE Constraint(
                 Constraint({c}, "error_decomposition", Keys(c.self.model.I),
                            error_decomposition(c.self)),
                 "regression_rule", Keys(c.self.model.I), regression_rule(c.self)),
          "afriat_rule", Keys(c.self.model.I), afriat_rule(c.self)),
        "sweet_rule", c.self.model.I \X c.self.model.I, sweet_rule(c.self)),
      "sweet_rule2", c.self.model.I \X c.self.model.I, sweet_rule2(c.self))

InitializeConstraints(C) ==
    UNION {IF c.raised # "none" THEN {c} ELSE Families(c) : c \in C}

\* lines 99-100
InitializeStatus(C) ==
    {IF c.raised # "none" THEN c
     ELSE Ok(SetAttrs([c.self EXCEPT !.optimization_status = 0,
                                     !.problem_status = <<"int", 0>>],
                      {"optimization_status", "problem_status"})) :
        c \in C}

\* The ways CQRZG2.__init__ may run on the fresh object s
CQRZG2_init(s, a) ==
    InitializeStatus(
      InitializeConstraints(
        InitializeObjective(
          InitializeVariables(
            InitializeSets(
              AssignMatrices(
                NormalizeZ(
                  NormalizeX({Ok(AssignArguments(s, a))}, a), a), a))))))

\* tau * sum(epsilon_plus[i] ** 2) + (1 - tau) * sum(epsilon_minus[i] ** 2)
squared_objective_rule(s) ==
    {<<"epsilon_plus", <<i>>, "tau", 2>> : i \in s.model.I}
      \cup {<<"epsilon_minus", <<i>>, "1-tau", 2>> : i \in s.model.I}

\* lines 383-385: the quantile objective deactivated, the squared one added
SquaredObjective(C) ==
    {IF c.raised # "none" THEN c
     ELSE Ok([c.self EXCEPT
                !.model = Objective(deactivate(@, "objective"),
                                    "squared_objective",
                                    squared_objective_rule(c.self))]) :
        c \in C}

CERZG2_init(s, a) == SquaredObjective(CQRZG2_init(s, a))

----------------------------------------------------------------------------
(* CQER.CQR and CQER.CER, the bases of the penalized models: the quantile  *)
(* and expectile formulations without sweet-spot families.                 *)

\* A flat sample is promoted to one-element vectors, vectors are kept.
PromoteFlat(v) ==
    IF type(Item(v, 0)) \in {"list", "ndarray"}
    THEN PyList([r \in DOMAIN tolist(v)[2] |-> tolist(v)[2][r]])
    ELSE PyList([r \in DOMAIN v[2] |-> PyList(<<v[2][r]>>)])

\* alpha, beta, lamda, the three epsilons, and frontier for a multiplicative
\* model only
BaseVariables(C) ==
    {IF c.raised # "none" THEN c
     ELSE Ok([c.self EXCEPT
                !.model = IF c.self.cet = CET_MULT THEN Variables(@)
                          ELSE [Variables(@) EXCEPT
                                  !.vars = {v \in @ : v.name # "frontier"}]]) :
        c \in C}

\* error decomposition, regression, log-link and Afriat; an unsupported
\* configuration fails when its first family is built
BaseFamilies(c) ==
    IF c.self.cet = CET_ADDI /\ c.self.rts = RTS_CRS
    THEN {Raise(d.self, "UnsupportedConfiguration") :
            d \in Constraint({c}, "error_decomposition", Keys(c.self.model.I),
                             error_decomposition(c.self))}
    ELSE Constraint(
           IF c.self.cet = CET_MULT
           THEN Constraint(
                  Constraint(
                    Constraint({c}, "error_decomposition", Keys(c.self.model.I),
                               error_decomposition(c.self)),
                    "regression_rule", Keys(c.self.model.I), regression_rule(c.self)),
                  "log_rule", Keys(c.self.model.I), log_rule(c.self))
           ELSE Constraint(
                  Constraint({c}, "error_decomposition", Keys(c.self.model.I),
                             error_decomposition(c.self)),
                  "regression_rule", Keys(c.self.model.I), regression_rule(c.self)),
           "afriat_rule", Keys(c.self.model.I), afriat_rule(c.self))

BaseConstraints(C) ==
    UNION {IF c.raised # "none" THEN {c} ELSE BaseFamilies(c) : c \in C}

CQR_init(s, a) ==
    InitializeStatus(
      BaseConstraints(
        InitializeObjective(
          BaseVariables(
            InitializeSets(
              {Ok([AssignArguments(s, a) EXCEPT !.x = PromoteFlat(a.x),
                                                !.z = PromoteFlat(a.z)])})))))

CER_init(s, a) == SquaredObjective(CQR_init(s, a))

----------------------------------------------------------------------------
(* pCQR and pCER.                                                          *)

\* loss + eta * sum(model.beta[ij] for ij in model.I * model.J)
new_objective_rule(s, loss) ==
    loss \cup {<<"beta", ij, "eta", 1>> : ij \in s.model.I \X s.model.J}

\* loss + eta * sum(model.beta[ij] ** 2 for ij in model.I * model.J)
new_objective_rule2(s, loss) ==
    loss \cup {<<"beta", ij, "eta", 2>> : ij \in s.model.I \X s.model.J}

\* sum(model.beta[i, j] ** 2 for j in model.J) <= self.eta**2
lipschitz_rule(s) ==
    Rule([i \in s.model.I |->
            Rel("<=", {<<"beta**2", <<i, j>>, 1>> : j \in s.model.J},
                {<<"eta**2", <<>>, 1>>})])

\* the unpenalized objective left active
KeepUnpenalized(s, penalty, unpenalized) == s

\* if penalty == 1 or penalty == 2: <unpenalized>.deactivate()
DeactivateUnpenalized(s, penalty, unpenalized) ==
    IF penalty = 1 \/ penalty = 2
    THEN [s EXCEPT !.model = deactivate(@, unpenalized)]
    ELSE s

\* if penalty == 1: ... elif penalty == 2: ... elif penalty == 3: ... else: raise
SelectPenalty(s, penalty, loss) ==
    IF penalty = 1
    THEN {Ok([s EXCEPT !.model =
                Objective(@, "new_objective", new_objective_rule(s, loss))])}
    ELSE IF penalty = 2
    THEN {Ok([s EXCEPT !.model =
                Objective(@, "new_objective", new_objective_rule2(s, loss))])}
    ELSE IF penalty = 3
    THEN Constraint({Ok(s)}, "lipschitz_norm", Keys(s.model.I), lipschitz_rule(s))
    ELSE {Raise(s, "ValueError")}

\* pCQR.__init__ after the base constructor (lines 27-43)
PenalizeQuantile(C, penalty) ==
    UNION {IF c.raised # "none" THEN {c}
           ELSE SelectPenalty(DeactivateUnpenalized(c.self, penalty, "objective"),
                              penalty, objective_rule(c.self)) :
             c \in C}

\* pCER.__init__ after the base constructor (lines 95-111)
PenalizeExpectile(C, penalty) ==
    UNION {IF c.raised # "none" THEN {c}
           ELSE SelectPenalty(DeactivateUnpenalized(c.self, penalty, "squared_objective"),
                              penalty, squared_objective_rule(c.self)) :
             c \in C}

pCQR_init(s, a) ==
    PenalizeQuantile(CQR_init(SetAttrs([s EXCEPT !.eta = a.eta], {"eta"}), a),
                     a.penalty)

pCER_init(s, a) ==
    PenalizeExpectile(CER_init(SetAttrs([s EXCEPT !.eta = a.eta], {"eta"}), a),
                      a.penalty)

----------------------------------------------------------------------------
(* The enumerated constructor calls.                                       *)

Configs == [cet : {CET_ADDI, CET_MULT}, fun : {FUN_PROD, FUN_COST},
            rts : {RTS_VRS, RTS_CRS}]

\* The arguments of one call: N observations, x and z in the given shapes.
Args(N, xs, zs, cfg, Cut, Act, penalty) ==
    [N |-> N, xshape |-> xs, zshape |-> zs,
     y |-> YData(N), x |-> XData(xs.kind, N, xs.width),
     z |-> ZData(zs.kind, N, zs.width),
     tau |-> "tau", eta |-> "eta",
     Cutactive |-> Cut, Active |-> Act,
     cet |-> cfg.cet, fun |-> cfg.fun, rts |-> cfg.rts, penalty |-> penalty]

ListShape(w) == [kind |-> "lists", width |-> w]

\* The pairs of matrices tried: one of the two ranges over all N x N boolean
\* matrices while the other is all false, all true, the same matrix or its
\* complement.
Uniform(N) == {AllFalse(N), AllTrue(N)}
Complement(M) == [p \in DOMAIN M |-> ~M[p]]
MatrixPairs(N) ==
    (Matrices(N) \X Uniform(N)) \cup (Uniform(N) \X Matrices(N))
      \cup {<<M, M>> : M \in Matrices(N)}
      \cup {<<M, Complement(M)>> : M \in Matrices(N)}

\* CQRZG2 / CERZG2: these pairs of matrices on list-shaped samples, and every pair of
\* shapes under one pair of matrices.
MatrixArgs ==
    {Args(q[1], ListShape(1), ListShape(1), q[2], q[3][1], q[3][2], 0) :
        q \in UNION {{N} \X Configs \X MatrixPairs(N) : N \in 1..MaxN}}

ShapeArgs ==
    {Args(q[1], q[2], q[3], q[4], AllFalse(q[1]), AllTrue(q[1]), 0) :
        q \in (1..MaxN) \X Shapes(1, MaxJ) \X Shapes(0, MaxK) \X Configs}

ZG2Args == MatrixArgs \cup ShapeArgs

\* pCQR / pCER: no matrices; every penalty code in 0..MaxPenalty.
PenalizedArgs ==
    {Args(q[1], q[2], ListShape(q[3]), q[4], <<>>, <<>>, q[5]) :
        q \in (1..MaxN) \X {sh \in Shapes(1, MaxJ) : sh.kind \in {"array1d", "lists"}}
                \X (0..MaxK) \X Configs \X (0..MaxPenalty)}

\* The objects whose life is followed: list-shaped samples.
LifeArgs ==
    {Args(q[1], ListShape(q[2]), ListShape(q[3]), q[4], AllFalse(q[1]), AllTrue(q[1]), 0) :
        q \in (1..MaxN) \X (1..MaxJ) \X (0..MaxK) \X Configs}

NoArgs ==
    [N |-> 0, xshape |-> ListShape(0), zshape |-> ListShape(0),
     y |-> <<>>, x |-> Unset, z |-> Unset, tau |-> "", eta |-> "",
     Cutactive |-> <<>>, Active |-> <<>>,
     cet |-> "", fun |-> "", rts |-> "", penalty |-> 0]

Call(name, remote, args) == [name |-> name, remote |-> remote, args |-> args]

\* What a call hands back: nothing (it raised), None, False, the new object,
\* or a numpy array of a shape.
Returned(kind, shape) == [kind |-> kind, shape |-> shape]

New(cls) == [NoObject EXCEPT !.cls = cls]

----------------------------------------------------------------------------
(* SpecBuild: one constructor call.                                        *)

\* A caller: where it stands in which call
Callers == 1..MaxCallers
Idle == [pc |-> "idle", call |-> "", remote |-> FALSE]
NoCallers == [t \in Callers |-> Idle]

InitBuild ==
    /\ callers = NoCallers
    /\ self = NoObject
    /\ op = Call("", FALSE, NoArgs)
    /\ ret = Returned("nothing", <<>>)
    /\ raised = "none"
    /\ stdout = ""
    /\ solves = 0

\* cls(args): __init__ runs on a fresh object, which the caller gets to hold
\* only if __init__ returns
Constructed(c) ==
    IF c.raised = "none" THEN Returned("object", <<>>) ELSE Returned("nothing", <<>>)

New_CQRZG2 ==
    /\ op.name = ""
    /\ \E a \in ZG2Args :
          \E c \in CQRZG2_init(New("CQRZG2"), a) :
              /\ self' = c.self
              /\ raised' = c.raised
              /\ ret' = Constructed(c)
              /\ op' = Call("CQRZG2", FALSE, a)
    /\ UNCHANGED <<stdout, solves, callers>>

New_CERZG2 ==
    /\ op.name = ""
    /\ \E a \in ZG2Args :
          \E c \in CERZG2_init(New("CERZG2"), a) :
              /\ self' = c.self
              /\ raised' = c.raised
              /\ ret' = Constructed(c)
              /\ op' = Call("CERZG2", FALSE, a)
    /\ UNCHANGED <<stdout, solves, callers>>

New_pCQR ==
    /\ op.name = ""
    /\ \E a \in PenalizedArgs :
          \E c \in pCQR_init(New("pCQR"), a) :
              /\ self' = c.self
              /\ raised' = c.raised
              /\ ret' = Constructed(c)
              /\ op' = Call("pCQR", FALSE, a)
    /\ UNCHANGED <<stdout, solves, callers>>

New_pCER ==
    /\ op.name = ""
    /\ \E a \in PenalizedArgs :
          \E c \in pCER_init(New("pCER"), a) :
              /\ self' = c.self
              /\ raised' = c.raised
              /\ ret' = Constructed(c)
              /\ op' = Call("pCER", FALSE, a)
    /\ UNCHANGED <<stdout, solves, callers>>

NextBuild == New_CQRZG2 \/ New_CERZG2 \/ New_pCQR \/ New_pCER

SpecBuild == InitBuild /\ [][NextBuild]_vars

----------------------------------------------------------------------------
(* The formulation a constructor call leaves behind.                       *)

ZG2 == {"CQRZG2", "CERZG2"}
Penalized == {"pCQR", "pCER"}

\* The call returned the new object
Built == op.name # "" /\ raised = "none" /\ ret.kind = "object"

\* Every combination but additive with constant returns to scale
Supported(a) == ~(a.cet = CET_ADDI /\ a.rts = RTS_CRS)

\* The sample is what the constructor expects: flat numpy arrays or lists of
\* lists
Expected(a) ==
    /\ a.xshape.kind \in {"array1d", "lists"}
    /\ a.zshape.kind \in {"array1d", "lists"}

Family(name) == {c \in self.model.cons : c.family = name}
FamilyKeys(name) == {c.key : c \in Family(name)}
ActiveObjectives == {o.name : o \in {o \in self.model.objs : o.active}}
InactiveObjectives == {o.name : o \in {o \in self.model.objs : ~o.active}}
ObjectiveNamed(name) == CHOOSE o \in self.model.objs : o.name = name

\* The observations whose alpha or beta occur on a side of a relation
Owners(side) == {t[2][1] : t \in {t \in side : t[1] \in {"alpha", "beta"}}}
AlphaOf(side) == {t[2][1] : t \in {t \in side : t[1] = "alpha"}}
BetaOf(side) == {t \in side : t[1] = "beta"}

\* C3 as stated: pCQR or pCER called with a penalty code outside {1, 2, 3}
\* raises and allocates nothing: no variables, no objective, no constraints,
\* and no object is handed back.
C3_InvalidPenaltyAllocatesNothing ==
    (op.name \in Penalized /\ op.args.penalty \notin {1, 2, 3})
        => /\ raised # "none"
           /\ ret.kind = "nothing"
           /\ raised = "ValueError"
                 => /\ self.model.vars = {}
                    /\ self.model.objs = {}
                    /\ self.model.cons = {}

\* C4 as stated: CQRZG2 or CERZG2 called with an additive error term and
\* constant returns to scale fails with an unsupported-configuration error
\* raised by the formulation itself.
C4_AdditiveConstantFailsExplicitly ==
    (op.name \in ZG2 /\ Expected(op.args) /\ ~Supported(op.args))
        => /\ raised = "UnsupportedConfiguration"
           /\ ret.kind = "nothing"

\* C6: a finished formulation has exactly one active objective.  With
\* penalty 1 or 2 it is new_objective, penalizing beta (power 1 or 2), and
\* every unpenalized objective is still there, deactivated; with penalty 3
\* the unpenalized loss stays the active one and lipschitz_norm holds exactly
\* N constraints sum_j beta[i, j] ** 2 <= eta ** 2, one per observation.  In
\* the expectile models objective is deactivated in favour of
\* squared_objective.
C6_OneActiveObjective ==
    Built =>
        /\ Cardinality(ActiveObjectives) = 1
        /\ LET unpenalized == IF op.name \in {"CQRZG2", "pCQR"}
                               THEN {"objective"}
                               ELSE {"objective", "squared_objective"}
               loss == IF op.name \in {"CQRZG2", "pCQR"}
                       THEN "objective" ELSE "squared_objective"
               penalty == op.args.penalty
           IN  IF op.name \in Penalized /\ penalty \in {1, 2} THEN
                   /\ ActiveObjectives = {"new_objective"}
                   /\ InactiveObjectives = unpenalized
                   /\ {t \in ObjectiveNamed("new_objective").expr : t[1] = "beta"}
                        = {<<"beta", ij, "eta", penalty>> :
                              ij \in self.model.I \X self.model.J}
                   /\ Family("lipschitz_norm") = {}
               ELSE
                   /\ ActiveObjectives = {loss}
                   /\ InactiveObjectives = unpenalized \ {loss}
                   /\ IF op.name \in Penalized THEN
                          /\ Cardinality(Family("lipschitz_norm")) = op.args.N
                          /\ FamilyKeys("lipschitz_norm") = Keys(0..(op.args.N - 1))
                          /\ \A c \in Family("lipschitz_norm") :
                                /\ c.rel = "<="
                                /\ c.lhs = {<<"beta**2", <<c.key[1], j>>, 1>> :
                                              j \in self.model.J}
                                /\ c.rhs = {<<"eta**2", <<>>, 1>>}
                      ELSE Family("lipschitz_norm") = {}

\* an expectile model built with the L2 penalty: two deactivated objectives
C6_PenalizedExpectileBuilt ==
    /\ Built
    /\ op.name = "pCER"
    /\ op.args.penalty = 2
    /\ InactiveObjectives = {"objective", "squared_objective"}

\* The pairs a sweet-spot family is to hold under matrix M
Pairs(M) == {p \in DOMAIN M : p[1] # p[2] /\ M[p]}

\* C7: for every supported configuration and every pair of matrices,
\* sweet_rule holds exactly one constraint for each (i, h) with i # h and
\* Cutactive[i][h] true and none for any other pair, sweet_rule2 likewise for
\* Active; each family follows its own matrix only.
C7_SweetFamiliesFollowOwnMatrix ==
    (op.name \in ZG2 /\ Expected(op.args) /\ Supported(op.args))
        => /\ Built
           /\ FamilyKeys("sweet_rule") = Pairs(op.args.Cutactive)
           /\ Cardinality(Family("sweet_rule"))
                = Cardinality(Pairs(op.args.Cutactive))
           /\ FamilyKeys("sweet_rule2") = Pairs(op.args.Active)
           /\ Cardinality(Family("sweet_rule2"))
                = Cardinality(Pairs(op.args.Active))

\* built on two matrices that differ off the diagonal, one of them true on
\* the diagonal
C7_DistinctMatricesBuilt ==
    /\ Built
    /\ op.name \in ZG2
    /\ Pairs(op.args.Cutactive) # {}
    /\ Pairs(op.args.Active) # Pairs(op.args.Cutactive)
    /\ \E p \in DOMAIN op.args.Cutactive : p[1] = p[2] /\ op.args.Cutactive[p]
    /\ FamilyKeys("sweet_rule") # FamilyKeys("sweet_rule2")

\* C8: for every supported configuration and N >= 1, afriat_rule holds
\* exactly N constraints, one per observation i; its left side is i's own
\* hyperplane at x_i, its right side the hyperplane of (i + 1) mod N at x_i.
C8_AfriatRing ==
    (op.name \in ZG2 /\ Expected(op.args) /\ Supported(op.args))
        => /\ Built
           /\ FamilyKeys("afriat_rule") = Keys(0..(op.args.N - 1))
           /\ Cardinality(Family("afriat_rule")) = op.args.N
           /\ \A c \in Family("afriat_rule") :
                 /\ Owners(c.lhs) = {c.key[1]}
                 /\ Owners(c.rhs) = {(c.key[1] + 1) % op.args.N}
                 /\ \A side \in {c.lhs, c.rhs} :
                       /\ {t[2][2] : t \in BetaOf(side)}
                            = 0..(op.args.xshape.width - 1)
                       /\ \A t \in BetaOf(side) : t[3] = XVal(c.key[1], t[2][2])

\* built on at least two observations: the last is compared with the first
C8_LastPairedWithFirst ==
    /\ Built
    /\ op.name \in ZG2
    /\ op.args.N >= 2
    /\ \E c \in Family("afriat_rule") :
          c.key = <<op.args.N - 1>> /\ Owners(c.rhs) = {0}

\* The sample as the constructor is to leave it: one list per observation
Normalized(N, width, Val) ==
    PyList([i \in 1..N |-> PyList([j \in 1..width |-> Num(Val[<<i - 1, j - 1>>])])])
XVals == [p \in (0..MaxN) \X (0..MaxJ) |-> XVal(p[1], p[2])]
ZVals == [p \in (0..MaxN) \X (0..MaxK) |-> ZVal(p[1], p[2])]

\* C9 as stated: after construction x holds one vector per observation, [x_i]
\* for a flat input (J = 1) and the J values given for an input of vectors,
\* z likewise with K, and I is 0..N-1.
C9_SampleNormalized ==
    (op.name \in ZG2 /\ Supported(op.args))
        => /\ Built
           /\ self.x = Normalized(op.args.N, op.args.xshape.width, XVals)
           /\ self.z = Normalized(op.args.N, op.args.zshape.width, ZVals)
           /\ self.model.I = 0..(op.args.N - 1)
           /\ self.model.J = 0..(op.args.xshape.width - 1)
           /\ self.model.K = 0..(op.args.zshape.width - 1)

ConvexFamilies == {"afriat_rule", "sweet_rule", "sweet_rule2"}

\* C10: in every supported configuration each constraint of afriat_rule,
\* sweet_rule and sweet_rule2 is <= for a production frontier and >= for a
\* cost frontier; under variable returns to scale the left side carries
\* alpha[i] and the right side the alpha of the other observation, under
\* constant returns to scale neither side carries an alpha.
C10_DirectionAndIntercept ==
    (op.name \in ZG2 /\ Expected(op.args) /\ Supported(op.args))
        => /\ Built
           /\ \A c \in {c \in self.model.cons : c.family \in ConvexFamilies} :
                 LET i == c.key[1]
                     h == IF c.family = "afriat_rule"
                          THEN (c.key[1] + 1) % op.args.N ELSE c.key[2]
                 IN  /\ op.args.fun = FUN_PROD => c.rel = "<="
                     /\ op.args.fun = FUN_COST => c.rel = ">="
                     /\ op.args.rts = RTS_VRS
                           => AlphaOf(c.lhs) = {i} /\ AlphaOf(c.rhs) = {h}
                     /\ op.args.rts = RTS_CRS
                           => AlphaOf(c.lhs) = {} /\ AlphaOf(c.rhs) = {}

\* a cost frontier under constant returns to scale with constraints in all
\* three families
C10_CostConstantBuilt ==
    /\ Built
    /\ op.name \in ZG2
    /\ op.args.fun = FUN_COST
    /\ op.args.rts = RTS_CRS
    /\ \A f \in ConvexFamilies : Family(f) # {}

\* sum_j beta[i][j] * x[i][j], for the sample as given
SlopesAt(i) ==
    {<<"beta", <<i, j>>, XVal(i, j)>> : j \in 0..(op.args.xshape.width - 1)}

\* C11: the log-link family exists if and only if the error term is
\* multiplicative, and then holds exactly N constraints,
\* frontier[i] == alpha[i] + sum_j beta[i][j]*x[i][j] - 1 under variable and
\* frontier[i] == sum_j beta[i][j]*x[i][j] - 1 under constant returns to
\* scale; the regression equation is on log(y[i]) and frontier[i] when
\* multiplicative and on y[i], without frontier, when additive.
C11_LogLinkIffMultiplicative ==
    (op.name \in ZG2 /\ Expected(op.args))
        => /\ ("log_rule" \in self.model.families) <=> (op.args.cet = CET_MULT)
           /\ op.args.cet = CET_ADDI => Family("log_rule") = {}
           /\ Supported(op.args) => Built
           /\ (Built /\ op.args.cet = CET_MULT) =>
                 /\ FamilyKeys("log_rule") = Keys(0..(op.args.N - 1))
                 /\ Cardinality(Family("log_rule")) = op.args.N
                 /\ \A c \in Family("log_rule") :
                       /\ c.rel = "=="
                       /\ c.lhs = {<<"frontier", c.key, 1>>}
                       /\ c.rhs = (IF op.args.rts = RTS_VRS
                                    THEN {<<"alpha", c.key, 1>>} ELSE {})
                                   \cup SlopesAt(c.key[1])
                                   \cup {<<"const", <<>>, -1>>}
                 /\ \A c \in Family("regression_rule") :
                       /\ c.lhs = {<<"log(const)", <<>>, YVal(c.key[1])>>}
                       /\ <<"log(frontier+1)", c.key, 1>> \in c.rhs
           /\ (Built /\ op.args.cet = CET_ADDI) =>
                 /\ Cardinality(Family("regression_rule")) = op.args.N
                 /\ \A c \in Family("regression_rule") :
                       /\ c.lhs = {<<"const", <<>>, YVal(c.key[1])>>}
                       /\ \A t \in c.rhs :
                             t[1] \notin {"frontier", "log(frontier+1)"}

\* a multiplicative model under constant returns to scale, built on at
\* least two observations
C11_MultiplicativeConstantBuilt ==
    /\ Built
    /\ op.name \in ZG2
    /\ op.args.cet = CET_MULT
    /\ op.args.rts = RTS_CRS
    /\ op.args.N >= 2
    /\ Cardinality(Family("log_rule")) = op.args.N

\* The variables of N observations with J inputs and K contextual variables
Layout(N, J, K, cet) ==
    {[name |-> "alpha", index |-> Keys(0..(N - 1)), bounds |-> <<"None", "None">>],
     [name |-> "beta", index |-> (0..(N - 1)) \X (0..(J - 1)),
      bounds |-> <<"0.0", "None">>],
     [name |-> "lamda", index |-> Keys(0..(K - 1)), bounds |-> <<"None", "None">>],
     [name |-> "epsilon", index |-> Keys(0..(N - 1)), bounds |-> <<"None", "None">>],
     [name |-> "epsilon_plus", index |-> Keys(0..(N - 1)),
      bounds |-> <<"0.0", "None">>],
     [name |-> "epsilon_minus", index |-> Keys(0..(N - 1)),
      bounds |-> <<"0.0", "None">>]}
      \cup (IF cet = CET_MULT
             THEN {[name |-> "frontier", index |-> Keys(0..(N - 1)),
                    bounds |-> <<"0.0", "None">>]}
             ELSE {})

\* C12 as stated: the variables are alpha, epsilon, epsilon_plus,
\* epsilon_minus over the N observations, beta over N x J, lamda over K, and
\* frontier over N only when the error term is multiplicative; beta,
\* frontier and the two epsilon parts are bounded below by 0, the others are
\* unbounded.
C12_VariableLayout ==
    (op.name \in ZG2 /\ Expected(op.args) /\ Built)
        => self.model.vars
             = Layout(op.args.N, op.args.xshape.width, op.args.zshape.width,
                      op.args.cet)

----------------------------------------------------------------------------
(* Spec: optimize(), get_alpha() and get_beta() on a constructed object.   *)

\* What solver.solve() may do: return its results (whatever the termination),
\* or raise.
SolverOutcomes == {"optimal", "infeasible", "raise"}

\* The effect of a call: the object, the exception, the value returned, the
\* line printed and the number of solve() invocations made.
Effect(s, e, r, out, n) ==
    [self |-> s, raised |-> e, ret |-> r, stdout |-> out, issued |-> n]

\* self.problem_status = solver.solve(...); self.optimization_status = 1;
\* return False (lines 107-109, 125-129)
solve(s, manager, opt) ==
    {IF outcome = "raise"
     THEN Effect(s, "SolverError", Returned("nothing", <<>>), "", 1)
     ELSE Effect([s EXCEPT !.problem_status = <<"results", manager, opt, outcome>>,
                           !.optimization_status = 1],
                 "none", Returned("False", <<>>), "", 1) :
        outcome \in SolverOutcomes}

\* The line optimize() prints on its unsupported branch
NotAvailable == "Estimating the multiplicative model will be available in near future."

\* optimize(remote) with the local branch solving whatever the error term
optimize_LocalAnyTerm(s, remote) ==
    IF remote = FALSE THEN solve(s, "local", "mosek")
    ELSE IF s.cet = CET_ADDI THEN solve(s, "neos", "mosek")
    ELSE solve(s, "neos", "knitro")

\* The ways optimize(remote) may run
optimize(s, remote) ==
    IF remote = FALSE THEN
        IF s.cet = CET_ADDI THEN solve(s, "local", "mosek")
        ELSE IF s.cet = CET_MULT THEN
            {Effect(s, "none", Returned("False", <<>>), NotAvailable, 0)}
        ELSE {Effect(s, "none", Returned("False", <<>>), "", 0)}
    ELSE
        IF s.cet = CET_ADDI THEN solve(s, "neos", "mosek")
        ELSE IF s.cet = CET_MULT THEN solve(s, "neos", "knitro")
        ELSE {Effect(s, "UnboundLocalError", Returned("nothing", <<>>), "", 0)}

\* self.optimize() without the test of optimization_status
OptimizeAlways(s) == optimize(s, TRUE)

\* if self.optimization_status == 0: self.optimize()
OptimizeIfNeeded(s) ==
    IF s.optimization_status = 0 THEN optimize(s, TRUE)
    ELSE {Effect(s, "none", Returned("None", <<>>), "", 0)}

\* get_alpha() reading the values without optimizing first
get_alpha_Unsolved(s) ==
    {Effect(s, "none", Returned("ndarray", <<Cardinality(s.model.I)>>), "", 0)}

get_alpha(s) ==
    {IF e.raised # "none" THEN e
     ELSE [e EXCEPT !.ret = Returned("ndarray", <<Cardinality(e.self.model.I)>>)] :
        e \in OptimizeIfNeeded(s)}

get_beta(s) ==
    {IF e.raised # "none" THEN e
     ELSE [e EXCEPT !.ret = Returned("ndarray", <<Cardinality(e.self.model.I),
                                                  Cardinality(e.self.model.J)>>)] :
        e \in OptimizeIfNeeded(s)}

Init ==
    \E a \in LifeArgs :
        \E c \in CQRZG2_init(New("CQRZG2"), a) \cup CERZG2_init(New("CERZG2"), a) :
            /\ c.raised = "none"
            /\ callers = NoCallers
            /\ self = c.self
            /\ op = Call(c.self.cls, FALSE, a)
            /\ ret = Returned("object", <<>>)
            /\ raised = "none"
            /\ stdout = ""
            /\ solves = 0

Optimize ==
    \E remote \in BOOLEAN :
        \E e \in optimize(self, remote) :
            /\ solves + e.issued <= MaxSolves
            /\ self' = e.self
            /\ raised' = e.raised
            /\ ret' = e.ret
            /\ stdout' = e.stdout
            /\ solves' = solves + e.issued
            /\ op' = Call("optimize", remote, NoArgs)
            /\ UNCHANGED callers

GetAlpha ==
    \E e \in get_alpha(self) :
        /\ solves + e.issued <= MaxSolves
        /\ self' = e.self
        /\ raised' = e.raised
        /\ ret' = e.ret
        /\ stdout' = e.stdout
        /\ solves' = solves + e.issued
        /\ op' = Call("get_alpha", FALSE, NoArgs)
        /\ UNCHANGED callers

GetBeta ==
    \E e \in get_beta(self) :
        /\ solves + e.issued <= MaxSolves
        /\ self' = e.self
        /\ raised' = e.raised
        /\ ret' = e.ret
        /\ stdout' = e.stdout
        /\ solves' = solves + e.issued
        /\ op' = Call("get_beta", FALSE, NoArgs)
        /\ UNCHANGED callers

Next == Optimize \/ GetAlpha \/ GetBeta

Spec == Init /\ [][Next]_vars

----------------------------------------------------------------------------
(* The solve, over the life of one object.                                 *)

Retrievals == {"get_alpha", "get_beta"}

\* C1 as stated: over any sequence of optimize(), get_alpha() and get_beta()
\* on one object the solver is invoked at most once; once a solve has
\* completed (optimization_status = 1) no later call, an explicit optimize()
\* included, issues another solve.
C1_SolvedNeverSolvesAgain ==
    [][self.optimization_status = 1 => solves' = solves]_vars

\* C1, amended: once a solve has completed, get_alpha() and get_beta() issue
\* no further solve; an explicit optimize() issues one solve on every call,
\* whatever optimization_status is, except optimize(remote=False) on a
\* multiplicative model, which issues none.
C1_OnlyExplicitOptimizeSolvesAgain ==
    [][/\ (op'.name \in Retrievals /\ self.optimization_status = 1)
            => solves' = solves
       /\ (op'.name = "optimize" /\ (op'.remote \/ self.cet = CET_ADDI))
            => solves' = solves + 1
       /\ (op'.name = "optimize" /\ ~op'.remote /\ self.cet = CET_MULT)
            => solves' = solves]_vars

\* a retrieval made on a solved object after the solver ran twice
C1_RetrievalAfterSecondSolve ==
    /\ op.name \in Retrievals
    /\ ret.kind = "ndarray"
    /\ self.optimization_status = 1
    /\ solves = 2

\* C2: get_alpha() and get_beta() return values only when a solve of this
\* object has completed; called with optimization_status = 0 they first issue
\* a solve, whatever came before, an optimize(remote=False) on a
\* multiplicative model that returned without solving included.
C2_ValuesOnlyAfterSolve ==
    [][op'.name \in Retrievals
          => /\ ret'.kind = "ndarray"
                  => /\ self'.optimization_status = 1
                     /\ self'.problem_status[1] = "results"
                     /\ solves' >= 1
             /\ self.optimization_status = 0 => solves' = solves + 1]_vars

\* values handed back by a retrieval on a multiplicative model whose only
\* solve is the one the retrieval issued
C2_LazySolveOnMult ==
    /\ op.name \in Retrievals
    /\ ret.kind = "ndarray"
    /\ self.cet = CET_MULT
    /\ solves = 1
    /\ self.problem_status[2] = "neos"

\* C5: optimize(remote=False) on a multiplicative model reports that it is
\* not available yet, invokes no solver, raises nothing, and leaves the
\* object as it was: optimization_status, problem_status, the objectives and
\* all constraints.
C5_LocalMultLeavesStateAlone ==
    [][(op'.name = "optimize" /\ ~op'.remote /\ self.cet = CET_MULT)
          => /\ self' = self
             /\ solves' = solves
             /\ raised' = "none"
             /\ ret'.kind = "False"
             /\ stdout' = NotAvailable]_vars

\* optimize(remote=False) has just returned on a multiplicative model
C5_LocalMultCalled ==
    /\ op.name = "optimize"
    /\ ~op.remote
    /\ self.cet = CET_MULT
    /\ stdout = NotAvailable

----------------------------------------------------------------------------
(* SpecThreads: optimize(), get_alpha() and get_beta() called by several   *)
(* callers on one object.  A call is followed statement by statement where *)
(* it reads or writes the object; solver.solve() blocks between the step   *)
(* that invokes it and the step in which it returns.                       *)

\* The objects shared: one observation, one input, every configuration that
\* constructs
ThreadArgs ==
    {Args(1, ListShape(1), ListShape(0), cfg, AllFalse(1), AllTrue(1), 0) :
        cfg \in {cfg \in Configs : Supported(cfg)}}

InitThreads ==
    \E a \in ThreadArgs :
        \E c \in CQRZG2_init(New("CQRZG2"), a) \cup CERZG2_init(New("CERZG2"), a) :
            /\ c.raised = "none"
            /\ callers = NoCallers
            /\ self = c.self
            /\ op = Call(c.self.cls, FALSE, a)
            /\ ret = Returned("object", <<>>)
            /\ raised = "none"
            /\ stdout = ""
            /\ solves = 0

At(t, pc, call, remote) ==
    [callers EXCEPT ![t] = [pc |-> pc, call |-> call, remote |-> remote]]

\* The solver optimize(remote) hands the model to
SolverOf(s, remote) ==
    IF remote THEN <<"neos", IF s.cet = CET_ADDI THEN "mosek" ELSE "knitro">>
    ELSE <<"local", "mosek">>

\* Caller t calls optimize(remote): on the unsupported branch it prints and
\* returns False, otherwise it invokes solver.solve(), which blocks
EnterOptimize(t) ==
    /\ callers[t].pc = "idle"
    /\ \E remote \in BOOLEAN :
          IF remote = FALSE /\ self.cet = CET_MULT
          THEN /\ stdout' = NotAvailable
               /\ ret' = Returned("False", <<>>)
               /\ raised' = "none"
               /\ op' = Call("optimize", remote, NoArgs)
               /\ UNCHANGED <<self, solves, callers>>
          ELSE /\ solves < MaxSolves
               /\ solves' = solves + 1
               /\ callers' = At(t, "solving", "optimize", remote)
               /\ UNCHANGED <<self, op, ret, raised, stdout>>

\* Caller t calls get_alpha() or get_beta(): it tests optimization_status and,
\* finding 0, calls self.optimize(), which invokes solver.solve()
EnterRetrieval(t) ==
    /\ callers[t].pc = "idle"
    /\ \E call \in {"get_alpha", "get_beta"} :
          IF self.optimization_status = 0
          THEN /\ solves < MaxSolves
               /\ solves' = solves + 1
               /\ callers' = At(t, "solving", call, TRUE)
               /\ UNCHANGED <<self, op, ret, raised, stdout>>
          ELSE /\ callers' = At(t, "values", call, TRUE)
               /\ UNCHANGED <<self, op, ret, raised, stdout, solves>>

\* solver.solve() returns to caller t, or raises:
\* self.problem_status = solver.solve(...)
SolverReturns(t) ==
    /\ callers[t].pc = "solving"
    /\ \E outcome \in SolverOutcomes :
          IF outcome = "raise"
          THEN /\ raised' = "SolverError"
               /\ ret' = Returned("nothing", <<>>)
               /\ op' = Call(callers[t].call, callers[t].remote, NoArgs)
               /\ stdout' = ""
               /\ callers' = [callers EXCEPT ![t] = Idle]
               /\ UNCHANGED <<self, solves>>
          ELSE /\ self' = [self EXCEPT !.problem_status =
                               <<"results", SolverOf(self, callers[t].remote)[1],
                                 SolverOf(self, callers[t].remote)[2], outcome>>]
               /\ callers' = [callers EXCEPT ![t].pc = "solved"]
               /\ UNCHANGED <<op, ret, raised, stdout, solves>>

\* self.optimization_status = 1, and optimize() returns False: to the caller
\* of optimize(), or into get_alpha() / get_beta()
SetStatus(t) ==
    /\ callers[t].pc = "solved"
    /\ self' = [self EXCEPT !.optimization_status = 1]
    /\ IF callers[t].call = "optimize"
       THEN /\ ret' = Returned("False", <<>>)
            /\ raised' = "none"
            /\ stdout' = ""
            /\ op' = Call("optimize", callers[t].remote, NoArgs)
            /\ callers' = [callers EXCEPT ![t] = Idle]
       ELSE /\ callers' = [callers EXCEPT ![t].pc = "values"]
            /\ UNCHANGED <<op, ret, raised, stdout>>
    /\ UNCHANGED solves

\* get_alpha() / get_beta() read the values off the model and return them
ReturnValues(t) ==
    /\ callers[t].pc = "values"
    /\ ret' = Returned("ndarray",
                       IF callers[t].call = "get_alpha"
                       THEN <<Cardinality(self.model.I)>>
                       ELSE <<Cardinality(self.model.I), Cardinality(self.model.J)>>)
    /\ raised' = "none"
    /\ stdout' = ""
    /\ op' = Call(callers[t].call, FALSE, NoArgs)
    /\ callers' = [callers EXCEPT ![t] = Idle]
    /\ UNCHANGED <<self, solves>>

NextThreads ==
    \E t \in Callers :
        \/ EnterOptimize(t)
        \/ EnterRetrieval(t)
        \/ SolverReturns(t)
        \/ SetStatus(t)
        \/ ReturnValues(t)

SpecThreads == InitThreads /\ [][NextThreads]_vars

\* The callers blocked in solver.solve()
Solving == {t \in Callers : callers[t].pc = "solving"}

\* C13 as stated: no two solves are in progress at the same time against one
\* object; of callers whose get_alpha(), get_beta() or optimize() calls
\* interleave, at most one is inside the solver.
C13_NoConcurrentSolves == Cardinality(Solving) <= 1

====
